---- MODULE Spec2Model ----
(***************************************************************************)
(* Model of lab01/main.py: the retrying transport post_graphql_com_retry   *)
(* and the cursor paginator buscar_repositorios_paginado.                  *)
(*                                                                         *)
(* Optional Python values are encoded as sequences: None is <<>> and a     *)
(* present value v is <<v>>.  A cursor string is a number: 0 is the empty  *)
(* string "" and k >= 1 is the opaque token that follows the k-th record.  *)
(* A node of an edge is a record identifier >= 1, or 0 for a missing/empty *)
(* node (falsy in Python).                                                 *)
(***************************************************************************)
EXTENDS Integers, Sequences, FiniteSets, TLC

VARIABLES
    chamada,        \* entry point under execution: "post", "buscar", "main" or "csv"
    pc,             \* position in the code
    token,          \* API_TOKEN in the environment: "ausente", "vazio" or "presente"
    fiel,           \* whether the upstream honours the pagination protocol
    disponiveis,    \* number of records the upstream holds for the query
    total,          \* argument total
    por_pagina_arg, \* argument por_pagina (<<>> is None)
    por_pagina,     \* local por_pagina after the default is applied
    repositorios,   \* local list repositorios
    cursor,         \* local cursor
    pagina,         \* local pagina
    quantidade,     \* local quantidade ("first" of the current request)
    max_tentativas, \* argument max_tentativas of post_graphql_com_retry
    tentativa,      \* loop variable tentativa
    espera,         \* local espera
    ultimo,         \* outcome of the last requests.post
    esperas,        \* durations passed to time.sleep in the current transport call
    tentativas_http,\* requests.post invocations in the current transport call
    chamadas,       \* requests.post invocations since the entry point was called
    falhas,         \* transient failures since the entry point was called
    pedidos,        \* "first" of every page request, in order
    paradas,        \* consecutive pages with no record, has-more and unchanged cursor
    erro,           \* exception raised ("" while none)
    resultado,      \* value returned by buscar_repositorios_paginado
    page_info,      \* local page_info of the last parsed page
    enviados,       \* variables of every requests.post of the current transport call
    recebidos,      \* the records of the parsed pages of the current fetch, in order
    cargas_token,   \* calls of carregar_token since the entry point was called
    trabalho,       \* main: index of the job in progress (0 outside main)
    arquivos,       \* main: the files written, in order
    pedidos_trabalho, \* main: requests.post invocations of each job
    repos,          \* salvar_csv: argument repositorios, the counts of each record
    linhas          \* salvar_csv: the rows written

vars == <<chamada, pc, token, fiel, disponiveis, total, por_pagina_arg, por_pagina,
          repositorios, cursor, pagina, quantidade, max_tentativas, tentativa,
          espera, ultimo, esperas, tentativas_http, chamadas, falhas, pedidos,
          paradas, erro, resultado, page_info, enviados, recebidos, cargas_token,
          trabalho, arquivos, pedidos_trabalho, repos, linhas>>

(***************************************************************************)
(* Bounds of the model.                                                    *)
(***************************************************************************)
MaxTotal == 2          \* largest total tried against an arbitrary upstream
MaxEdges == 2          \* longest edge list of an arbitrary page
MaxPaginas == 3        \* page requests explored against an arbitrary upstream
MaxFalhas == 1         \* transient failures injected into a fetch, arbitrary upstream
MaxFalhasFiel == 6     \* transient failures injected into a fetch, faithful upstream
MaxTentativasArg == 8  \* largest max_tentativas passed to the transport directly
MaxDisponiveis == 3    \* largest small data set of the faithful upstream
MaxLinhas == 2         \* longest record list passed to salvar_csv directly

(***************************************************************************)
(* Program constants.                                                      *)
(***************************************************************************)
REPOS_POR_PAGINA == 10
MaxTentativasPadrao == 6
EsperaInicial == 1
EsperaMaxima == 20
PaginaMaxima == 100

\* The record identifiers an arbitrary page draws its nodes from.
Registros == {1, 2}

None == <<>>
Some(v) == <<v>>
Min(a, b) == IF a <= b THEN a ELSE b

\* Python truthiness of an optional boolean (not has_next).
Verdadeiro(b) == b = Some(TRUE)
\* Python truthiness of an optional string (not cursor): None and "" are falsy.
CursorPresente(c) == c # None /\ c # Some(0)

(***************************************************************************)
(* post_graphql_com_retry: the pieces of its control flow.                 *)
(***************************************************************************)
\* Statuses the upstream may answer with: success, auth failure, rate limiting, 5xx.
Status == {200, 401, 403, 429, 500, 502, 503, 504}

\* Variant: every 5xx status is retried.
Transitorio_Todo5xx(status) == status >= 500

\* Variant: only 502 is retried.
Transitorio_So502(status) == status = 502

\* resp.status_code in (502, 503, 504)
Transitorio(status) == status \in {502, 503, 504}

\* Variant: the doubling without the ceiling.
ProximaEspera_SemTeto(e) == e * 2

\* espera = min(espera * 2, 20)
ProximaEspera(e) == Min(e * 2, EsperaMaxima)

\* Variant: range(1, max_tentativas + 2), one pass too many.
HaTentativa_UmaMais(t, maximo) == t <= maximo + 1

\* for tentativa in range(1, max_tentativas + 1): whether another pass runs
HaTentativa(t, maximo) == t <= maximo

\* The outcome of a requests.post: the status, and for a parsed 200 body whether it
\* has an "errors" key and how many nodes its edges carry.
SemResposta == [tipo |-> "nenhum", status |-> 0, erros |-> FALSE, nos |-> 0]
Resposta(status) == [tipo |-> "resposta", status |-> status, erros |-> FALSE, nos |-> 0]
RespostaLida(erros, nos) == [tipo |-> "resposta", status |-> 200, erros |-> erros, nos |-> nos]
EstouroDeTempo == [tipo |-> "timeout", status |-> 0, erros |-> FALSE, nos |-> 0]

\* Variant: the paginator catches what the transport raises and leaves its loop.
ErroDoTransporte_Engolido(e) ==
    IF chamada = "post" THEN [pc |-> "erro", erro |-> e] ELSE [pc |-> "retorno", erro |-> ""]

\* A raise of the transport: nothing catches it, neither in the transport (the except
\* clause is for Timeout) nor around the call in the paginator (lines 135-137).
ErroDoTransporte(e) == [pc |-> "erro", erro |-> e]

\* Variant: every request starts from the beginning.
Variaveis_SemCursor(q, c) == [first |-> q, after |-> None]

\* variables = {"queryString": ..., "first": quantidade, "after": cursor}
Variaveis(q, c) == [first |-> q, after |-> c]

\* Variant: espera outlives the call, so a later call starts from the delay reached.
EntrarPost_SemReinicio(maximo) ==
    /\ tentativa' = IF HaTentativa(1, maximo) THEN 1 ELSE 0
    /\ espera' = IF espera = 0 THEN EsperaInicial ELSE espera
    /\ esperas' = <<>>
    /\ tentativas_http' = 0
    /\ ultimo' = SemResposta
    /\ enviados' = <<>>
    /\ pc' = IF HaTentativa(1, maximo) THEN "tentativa" ELSE ErroDoTransporte("Esgotado").pc
    /\ erro' = IF HaTentativa(1, maximo) THEN erro ELSE ErroDoTransporte("Esgotado").erro

\* Entry into post_graphql_com_retry: espera = 1, then the first pass of the for loop,
\* or the raise after it when range(1, max_tentativas + 1) is empty.
EntrarPost(maximo) ==
    /\ tentativa' = IF HaTentativa(1, maximo) THEN 1 ELSE 0
    /\ espera' = EsperaInicial
    /\ esperas' = <<>>
    /\ tentativas_http' = 0
    /\ ultimo' = SemResposta
    /\ enviados' = <<>>
    /\ pc' = IF HaTentativa(1, maximo) THEN "tentativa" ELSE ErroDoTransporte("Esgotado").pc
    /\ erro' = IF HaTentativa(1, maximo) THEN erro ELSE ErroDoTransporte("Esgotado").erro

\* Variant: the failure of the last pass raises without sleeping.
Recuar_SemUltimaEspera ==
    /\ falhas' = falhas + 1
    /\ IF HaTentativa(tentativa + 1, max_tentativas)
         THEN /\ esperas' = Append(esperas, espera)
              /\ espera' = ProximaEspera(espera)
              /\ tentativa' = tentativa + 1 /\ pc' = pc /\ erro' = erro
         ELSE /\ UNCHANGED <<esperas, espera, tentativa>>
              /\ pc' = ErroDoTransporte("Esgotado").pc
              /\ erro' = ErroDoTransporte("Esgotado").erro

\* print, time.sleep(espera), the doubling, then the next pass of the for loop, or the
\* raise after it when the passes are used up.
Recuar ==
    /\ esperas' = Append(esperas, espera)
    /\ espera' = ProximaEspera(espera)
    /\ falhas' = falhas + 1
    /\ IF HaTentativa(tentativa + 1, max_tentativas)
         THEN tentativa' = tentativa + 1 /\ pc' = pc /\ erro' = erro
         ELSE /\ tentativa' = tentativa
              /\ pc' = ErroDoTransporte("Esgotado").pc
              /\ erro' = ErroDoTransporte("Esgotado").erro

NaTentativa == pc = "tentativa"

\* requests.post(GITHUB_GRAPHQL_URL, json=payload, ...): one more HTTP request, with
\* the payload the transport was given.
Postar ==
    /\ tentativas_http' = tentativas_http + 1
    /\ chamadas' = chamadas + 1
    /\ enviados' = Append(enviados, Variaveis(quantidade, cursor))
    /\ pedidos_trabalho' = IF chamada = "main"
                             THEN [pedidos_trabalho EXCEPT ![trabalho] = @ + 1]
                             ELSE pedidos_trabalho

\* The transient failures the environment injects into one fetch are capped; a direct
\* call of the transport is bounded by max_tentativas itself.
FalhasPermitidas ==
    \/ chamada = "post"
    \/ falhas < (IF fiel /\ chamada = "buscar" THEN MaxFalhasFiel ELSE MaxFalhas)

(***************************************************************************)
(* buscar_repositorios_paginado: the pieces of its control flow.           *)
(***************************************************************************)
\* Variant: only a missing variable is refused, an empty one passes.
TokenFalta_SoAusente(t) == t = "ausente"

\* carregar_token: if not token: raise RuntimeError
TokenFalta(t) == t \in {"ausente", "vazio"}

\* Variant: the token is loaded by the first call and kept for the later ones.
Cargas_Guardado(n) == IF n = 0 THEN 1 ELSE n

\* token = carregar_token(): one more load_dotenv() and os.getenv("API_TOKEN")
Cargas(n) == n + 1

\* if por_pagina is None: por_pagina = REPOS_POR_PAGINA
PorPaginaEfetivo(arg) == IF arg = None THEN REPOS_POR_PAGINA ELSE arg[1]

\* if total <= 0: raise ValueError
TotalInvalido(t) == t <= 0

\* Variant: the upper limit of the page size is not checked.
PorPaginaInvalido_SemTeto(p) == p <= 0

\* if por_pagina <= 0 or por_pagina > 100: raise ValueError
PorPaginaInvalido(p) == p <= 0 \/ p > PaginaMaxima

\* Variant: every request asks for a whole page.
Quantidade_SemResto(p, t, n) == p

\* quantidade = min(por_pagina, total - len(repositorios))
Quantidade(p, t, n) == Min(p, t - n)

\* for edge in edges: node = edge.get("node"); if node: repositorios.append(node)
Nos(edges) == SelectSeq(edges, LAMBDA n : n # 0)

\* Variant: has_next read without the negation.
DeveParar_HasNextInvertido(has_next, c, n, t) ==
    Verdadeiro(has_next) \/ ~CursorPresente(c) \/ n >= t

\* Variant: the cursor is not looked at.
DeveParar_SemCursor(has_next, c, n, t) == ~Verdadeiro(has_next) \/ n >= t

\* if not has_next or not cursor or len(repositorios) >= total: break
DeveParar(has_next, c, n, t) == ~Verdadeiro(has_next) \/ ~CursorPresente(c) \/ n >= t

\* Variant: the error list is honoured only when the body carries no edges.
TemErros_SoSemDados(corpo) == corpo.erros /\ corpo.edges = <<>>

\* if "errors" in data: raise RuntimeError
TemErros(corpo) == corpo.erros

\* Variant: the list is returned without the slice.
Truncar_SemCorte(reps, t) == reps

\* Variant: the slice keeps the end of the list, repositorios[-total:].
Truncar_Final(reps, t) == SubSeq(reps, Len(reps) - Min(Len(reps), t) + 1, Len(reps))

\* return repositorios[:total]
Truncar(reps, t) == SubSeq(reps, 1, Min(Len(reps), t))

(***************************************************************************)
(* The upstream.  A body is what response.json() yields: whether it has an *)
(* "errors" key, the edges, pageInfo.hasNextPage and pageInfo.endCursor    *)
(* (absent keys read as no edges and None).                                *)
(***************************************************************************)
Corpo(erros, edges, has_next, end_cursor) ==
    [erros |-> erros, edges |-> edges, has_next |-> has_next, end_cursor |-> end_cursor]

\* The page a protocol-abiding upstream holding `n` records returns for (first, after).
PaginaFiel(n, first, after) ==
    LET inicio == IF after = None THEN 0 ELSE after[1]
        k == Min(first, n - inicio)
    IN  Corpo(FALSE,
              [i \in 1..k |-> inicio + i],
              Some(inicio + k < n),
              IF k = 0 THEN None ELSE Some(inicio + k))

EdgesArbitrarias == UNION {[1..k -> {0} \cup Registros] : k \in 0..MaxEdges}
CursoresArbitrarios == {None} \cup {Some(k) : k \in {0} \cup Registros}
CorposArbitrarios ==
    {Corpo(e, ed, h, c) : e \in BOOLEAN, ed \in EdgesArbitrarias,
                          h \in {None, Some(TRUE), Some(FALSE)},
                          c \in CursoresArbitrarios}

\* page_info = search_info.get("pageInfo") or {}, read with .get
PageInfo(corpo) == [has_next |-> corpo.has_next, end_cursor |-> corpo.end_cursor]
SemPageInfo == [has_next |-> None, end_cursor |-> None]

Corpos == IF fiel THEN {PaginaFiel(disponiveis, quantidade, cursor)}
                  ELSE CorposArbitrarios

(***************************************************************************)
(* main: the two jobs.                                                     *)
(***************************************************************************)
\* Variant: the two jobs in the other order.
Trabalhos_Invertidos ==
    <<[total |-> 1000, arquivo |-> "csv"], [total |-> 100, arquivo |-> "json"]>>

\* buscar_repositorios_paginado(100) -> salvar_json; buscar_repositorios_paginado(1000)
\* -> salvar_csv
Trabalhos ==
    <<[total |-> 100, arquivo |-> "json"], [total |-> 1000, arquivo |-> "csv"]>>

\* A file written from a list of records: one entry (edge or row) per record.
Arquivo(nome, registros) == [arquivo |-> nome, registros |-> Len(registros)]

(***************************************************************************)
(* salvar_csv: the issue counts of a row.  A record carries its "issues"   *)
(* and "closedIssues" objects as optional totalCount values; a quotient is *)
(* kept as the fraction in lowest terms.                                   *)
(***************************************************************************)
Contagens == {0, 3, 10}
Repos == [issues : {None} \cup {Some(n) : n \in Contagens},
          closedIssues : {None} \cup {Some(n) : n \in Contagens}]

\* (repo.get(chave) or {}).get("totalCount", 0)
TotalCount(objeto) == IF objeto = None THEN 0 ELSE objeto[1]

\* Variant: the division is not guarded.
RazaoDefinida_SemGuarda(issues_total) == TRUE

\* if issues_total and issues_total > 0
RazaoDefinida(issues_total) == issues_total # 0 /\ issues_total > 0

RECURSIVE MDC(_, _)
MDC(a, b) == IF b = 0 THEN a ELSE MDC(b, a % b)

\* closed_total / issues_total; raises ZeroDivisionError when issues_total is 0
Quociente(closed_total, issues_total) ==
    IF issues_total = 0
      THEN [num |-> closed_total, den |-> 0]
      ELSE [num |-> closed_total \div MDC(closed_total, issues_total),
            den |-> issues_total \div MDC(closed_total, issues_total)]

\* Lines 224-228 and the three cells of the row they feed.
LinhaCsv(repo) ==
    LET issues_total == TotalCount(repo.issues)
        closed_total == TotalCount(repo.closedIssues)
    IN  [issues_total |-> issues_total,
         closed_issues_total |-> closed_total,
         closed_issues_ratio |-> IF RazaoDefinida(issues_total)
                                   THEN Some(Quociente(closed_total, issues_total))
                                   ELSE None,
         excecao |-> RazaoDefinida(issues_total) /\ issues_total = 0]

(***************************************************************************)
(* Initial states: one call of an entry point with its arguments and the   *)
(* environment it runs in.                                                 *)
(***************************************************************************)
PorPaginas == {None} \cup {Some(p) : p \in {-1, 0, 1, PaginaMaxima, PaginaMaxima + 1}}

Locais ==
    /\ pc = "inicio"
    /\ por_pagina = 0
    /\ repositorios = <<>>
    /\ cursor = None
    /\ pagina = 0
    /\ quantidade = 0
    /\ tentativa = 0
    /\ espera = 0
    /\ ultimo = SemResposta
    /\ esperas = <<>>
    /\ tentativas_http = 0
    /\ chamadas = 0
    /\ falhas = 0
    /\ pedidos = <<>>
    /\ paradas = 0
    /\ erro = ""
    /\ resultado = <<>>
    /\ page_info = SemPageInfo
    /\ enviados = <<>>
    /\ recebidos = <<>>
    /\ cargas_token = 0
    /\ arquivos = <<>>
    /\ pedidos_trabalho = <<0, 0>>
    /\ linhas = <<>>

\* post_graphql_com_retry(headers, payload, max_tentativas) called directly.
InitPost ==
    /\ chamada = "post"
    /\ max_tentativas \in 0..MaxTentativasArg
    /\ token = "presente"
    /\ fiel = FALSE
    /\ disponiveis = 0
    /\ total = 0
    /\ por_pagina_arg = None
    /\ trabalho = 0
    /\ repos = <<>>
    /\ Locais

\* buscar_repositorios_paginado(total, por_pagina) against an arbitrary upstream.
InitBuscar ==
    /\ chamada = "buscar"
    /\ max_tentativas = MaxTentativasPadrao
    /\ token \in {"ausente", "vazio", "presente"}
    /\ fiel = FALSE
    /\ disponiveis = 0
    /\ total \in -1..MaxTotal
    /\ por_pagina_arg \in PorPaginas
    /\ trabalho = 0
    /\ repos = <<>>
    /\ Locais

\* buscar_repositorios_paginado(total, por_pagina) against a protocol-abiding
\* upstream that holds `disponiveis` records.
InitBuscarFiel ==
    /\ chamada = "buscar"
    /\ max_tentativas = MaxTentativasPadrao
    /\ token = "presente"
    /\ fiel = TRUE
    /\ disponiveis \in (0..MaxDisponiveis) \cup {12, 25, 30}
    /\ total \in (1..MaxTotal) \cup {25}
    /\ por_pagina_arg \in {None, Some(1), Some(2), Some(PaginaMaxima)}
    /\ trabalho = 0
    /\ repos = <<>>
    /\ Locais

\* main(): its first statement calls buscar_repositorios_paginado(100); the upstream
\* follows the protocol.
InitMain ==
    /\ chamada = "main"
    /\ max_tentativas = MaxTentativasPadrao
    /\ token \in {"ausente", "vazio", "presente"}
    /\ fiel = TRUE
    /\ disponiveis \in {0, 25, 100, 1000}
    /\ trabalho = 1
    /\ total = Trabalhos[1].total
    /\ por_pagina_arg = None
    /\ repos = <<>>
    /\ Locais

\* salvar_csv(repositorios, caminho) called directly with a list of records.
InitCsv ==
    /\ chamada = "csv"
    /\ max_tentativas = MaxTentativasPadrao
    /\ token = "presente"
    /\ fiel = FALSE
    /\ disponiveis = 0
    /\ trabalho = 0
    /\ total = 0
    /\ por_pagina_arg = None
    /\ repos \in UNION {[1..k -> Repos] : k \in 0..MaxLinhas}
    /\ Locais

Init == InitPost \/ InitBuscar \/ InitBuscarFiel \/ InitMain \/ InitCsv

argumentos == <<chamada, token, fiel, disponiveis, total, por_pagina_arg>>
locaisMain == <<trabalho, arquivos>>
locaisCsv == <<repos, linhas>>
locaisBuscar == <<por_pagina, repositorios, cursor, pagina, quantidade, pedidos, paradas,
                  resultado, page_info, recebidos, cargas_token>>
locaisPost == <<tentativa, espera, ultimo, esperas, tentativas_http, enviados>>

(***************************************************************************)
(* Actions of post_graphql_com_retry.                                      *)
(***************************************************************************)
\* The direct call enters the function.
IniciarPost ==
    /\ pc = "inicio"
    /\ chamada = "post"
    /\ EntrarPost(max_tentativas)
    /\ UNCHANGED <<argumentos, locaisMain, locaisCsv, locaisBuscar, max_tentativas,
                   chamadas, falhas, pedidos_trabalho>>

\* requests.post answers 200 to the direct caller: return resp.
RespostaOk ==
    /\ NaTentativa
    /\ chamada = "post"
    /\ ultimo' = Resposta(200)
    /\ Postar
    /\ pc' = "fim"
    /\ UNCHANGED <<argumentos, locaisMain, locaisCsv, locaisBuscar, max_tentativas,
                   tentativa, espera, esperas,
                   falhas, erro>>

\* requests.post answers a status of the retried set: warn, sleep, double, continue.
RespostaTransitoria ==
    /\ NaTentativa
    /\ FalhasPermitidas
    /\ \E s \in Status \ {200} :
        /\ Transitorio(s)
        /\ ultimo' = Resposta(s)
    /\ Postar
    /\ Recuar
    /\ UNCHANGED <<argumentos, locaisMain, locaisCsv, locaisBuscar, max_tentativas>>

\* requests.post raises Timeout: warn, sleep, double, next pass.
Timeout ==
    /\ NaTentativa
    /\ FalhasPermitidas
    /\ ultimo' = EstouroDeTempo
    /\ Postar
    /\ Recuar
    /\ UNCHANGED <<argumentos, locaisMain, locaisCsv, locaisBuscar, max_tentativas>>

\* requests.post answers any other status: raise RuntimeError("Falha GraphQL ...").
RespostaDefinitiva ==
    /\ NaTentativa
    /\ \E s \in Status \ {200} :
        /\ ~Transitorio(s)
        /\ ultimo' = Resposta(s)
    /\ Postar
    /\ pc' = ErroDoTransporte("FalhaGraphQL").pc
    /\ erro' = ErroDoTransporte("FalhaGraphQL").erro
    /\ UNCHANGED <<argumentos, locaisMain, locaisCsv, locaisBuscar, max_tentativas,
                   tentativa, espera, esperas,
                   falhas>>

(***************************************************************************)
(* Actions of buscar_repositorios_paginado.                                *)
(***************************************************************************)
ErrosDeValidacao == {"ValueErrorTotal", "ValueErrorPorPagina"}

\* Lines 108-124: default page size, validation, carregar_token, the locals.
Validar ==
    /\ pc = "inicio"
    /\ chamada \in {"buscar", "main"}
    /\ por_pagina' = PorPaginaEfetivo(por_pagina_arg)
    /\ IF TotalInvalido(total)
         THEN pc' = "erro" /\ erro' = "ValueErrorTotal"
         ELSE IF PorPaginaInvalido(por_pagina')
           THEN pc' = "erro" /\ erro' = "ValueErrorPorPagina"
           ELSE IF TokenFalta(token)
             THEN pc' = "erro" /\ erro' = "TokenAusente"
             ELSE pc' = "laco" /\ erro' = erro
    /\ cargas_token' = IF TotalInvalido(total) \/ PorPaginaInvalido(por_pagina')
                         THEN cargas_token
                         ELSE Cargas(cargas_token)
    /\ repositorios' = <<>>
    /\ cursor' = None
    /\ pagina' = 0
    /\ pedidos' = <<>>
    /\ recebidos' = <<>>
    /\ page_info' = SemPageInfo
    /\ UNCHANGED <<argumentos, locaisMain, locaisCsv, locaisPost, max_tentativas,
                   quantidade, paradas, resultado, chamadas, falhas, pedidos_trabalho>>

\* while len(repositorios) < total: build the request and call the transport.
Laco ==
    /\ pc = "laco"
    /\ IF Len(repositorios) < total
         THEN /\ fiel \/ pagina < MaxPaginas
              /\ pagina' = pagina + 1
              /\ quantidade' = Quantidade(por_pagina, total, Len(repositorios))
              /\ pedidos' = Append(pedidos, quantidade')
              /\ max_tentativas' = MaxTentativasPadrao
              /\ EntrarPost(MaxTentativasPadrao)
         ELSE /\ pc' = "retorno"
              /\ UNCHANGED <<pagina, quantidade, pedidos, max_tentativas, locaisPost, erro>>
    /\ UNCHANGED <<argumentos, locaisMain, locaisCsv, por_pagina, repositorios, cursor,
                   paradas, resultado, page_info, recebidos, cargas_token, chamadas,
                   falhas, pedidos_trabalho>>

\* requests.post answers 200 to the paginator: the body is parsed, its nodes are
\* appended, the cursor advances and the loop breaks, or sleeps and goes round.
Pagina ==
    /\ NaTentativa
    /\ chamada \in {"buscar", "main"}
    /\ Postar
    /\ \E corpo \in Corpos :
      /\ ultimo' = RespostaLida(corpo.erros, Len(Nos(corpo.edges)))
      /\ IF TemErros(corpo)
          THEN /\ pc' = "erro"
               /\ erro' = "ErrosGraphQL"
               /\ UNCHANGED <<repositorios, cursor, paradas, page_info, recebidos>>
          ELSE /\ repositorios' = repositorios \o Nos(corpo.edges)
               /\ recebidos' = recebidos \o SelectSeq(corpo.edges, LAMBDA n : n >= 1)
               /\ page_info' = PageInfo(corpo)
               /\ cursor' = page_info'.end_cursor
               /\ paradas' = IF /\ Nos(corpo.edges) = <<>>
                                /\ Verdadeiro(corpo.has_next)
                                /\ corpo.end_cursor = cursor
                               THEN paradas + 1
                               ELSE 0
               /\ pc' = IF DeveParar(page_info'.has_next, cursor', Len(repositorios'), total)
                          THEN "retorno"
                          ELSE "laco"
               /\ erro' = erro
    /\ UNCHANGED <<argumentos, locaisMain, locaisCsv, por_pagina, pagina, quantidade,
                   pedidos, resultado,
                   cargas_token, max_tentativas, tentativa, espera, esperas, falhas>>

\* return repositorios[:total]
Retornar ==
    /\ pc = "retorno"
    /\ resultado' = Truncar(repositorios, total)
    /\ pc' = IF chamada = "main" THEN "salvar" ELSE "fim"
    /\ UNCHANGED <<argumentos, locaisMain, locaisCsv, por_pagina, repositorios, cursor,
                   pagina, quantidade, pedidos, paradas, page_info, recebidos,
                   cargas_token, locaisPost, max_tentativas, chamadas, falhas, erro,
                   pedidos_trabalho>>

(***************************************************************************)
(* Actions of main.                                                        *)
(***************************************************************************)
\* Lines 261-268: the first fetch has returned; write the JSON file, show the sample,
\* call the second fetch.
MainJson ==
    /\ chamada = "main"
    /\ pc = "salvar"
    /\ trabalho = 1
    /\ arquivos' = Append(arquivos, Arquivo(Trabalhos[trabalho].arquivo, resultado))
    /\ trabalho' = trabalho + 1
    /\ total' = Trabalhos[trabalho'].total
    /\ pc' = "inicio"
    /\ UNCHANGED <<chamada, token, fiel, disponiveis, por_pagina_arg, locaisCsv,
                   locaisBuscar, locaisPost, max_tentativas, chamadas, falhas, erro,
                   pedidos_trabalho>>

\* Lines 269-271: the second fetch has returned; write the CSV file and finish.
MainCsv ==
    /\ chamada = "main"
    /\ pc = "salvar"
    /\ trabalho = Len(Trabalhos)
    /\ arquivos' = Append(arquivos, Arquivo(Trabalhos[trabalho].arquivo, resultado))
    /\ pc' = "fim"
    /\ UNCHANGED <<argumentos, trabalho, locaisCsv, locaisBuscar, locaisPost,
                   max_tentativas, chamadas, falhas, erro, pedidos_trabalho>>

(***************************************************************************)
(* salvar_csv called directly.                                             *)
(***************************************************************************)
\* One row per record, in order; an exception in a row ends the call with the rows
\* before it written.
SalvarCsv ==
    /\ chamada = "csv"
    /\ pc = "inicio"
    /\ LET ls == [i \in 1..Len(repos) |-> LinhaCsv(repos[i])]
           ruins == {i \in 1..Len(repos) : ls[i].excecao}
           ate == IF ruins = {} THEN Len(repos)
                                ELSE (CHOOSE i \in ruins : \A j \in ruins : i <= j) - 1
       IN  /\ linhas' = SubSeq(ls, 1, ate)
           /\ pc' = IF ruins = {} THEN "fim" ELSE "erro"
           /\ erro' = IF ruins = {} THEN erro ELSE "ZeroDivisionError"
    /\ UNCHANGED <<argumentos, locaisMain, repos, locaisBuscar, locaisPost,
                   max_tentativas, chamadas, falhas, pedidos_trabalho>>

Next ==
    \/ IniciarPost
    \/ RespostaOk
    \/ RespostaTransitoria
    \/ Timeout
    \/ RespostaDefinitiva
    \/ Validar
    \/ Laco
    \/ Pagina
    \/ Retornar
    \/ MainJson
    \/ MainCsv
    \/ SalvarCsv

Spec == Init /\ [][Next]_vars

(***************************************************************************)
(* Properties.                                                             *)
(***************************************************************************)
Teto(a, b) == (a + b - 1) \div b
Retornou == chamada = "buscar" /\ pc = "fim"

\* C1: against an upstream that follows the protocol and holds `disponiveis` records,
\* a fetch that returns (no terminal error) returns exactly min(total, disponiveis)
\* records.
C1_TamanhoDoRetorno ==
    (fiel /\ Retornou) => Len(resultado) = Min(total, disponiveis)

C1_Witness ==
    /\ fiel /\ Retornou
    /\ total = 25 /\ disponiveis = 12
    /\ Len(resultado) = 12
    /\ falhas > 0

\* C2 (as stated): once pages are being fetched, the accumulated list is never longer
\* than total, whatever the pages contain.
C2_AcumuladoNuncaExcede ==
    (chamada = "buscar" /\ pagina >= 1) => Len(repositorios) <= total

\* C2 (amended): a page that carries no more records than its request asked for never
\* takes the accumulated list beyond total, and the returned list is never longer than
\* total whatever the pages carried.
C2_AcumuladoLimitado ==
    /\ [][(chamada = "buscar" /\ pc = "tentativa"
            /\ Len(repositorios') - Len(repositorios) <= quantidade)
          => Len(repositorios') <= total]_vars
    /\ [](Retornou => Len(resultado) <= total)

C2_Witness ==
    /\ Retornou
    /\ Len(repositorios) > total
    /\ Len(resultado) = total

\* C3: a call with total <= 0, or with por_pagina below 1 or above 100, ends in a
\* validation error and issues no HTTP request.
C3_EntradaInvalida ==
    LET invalida ==
            \/ total <= 0
            \/ (por_pagina_arg # None /\ (por_pagina_arg[1] < 1 \/ por_pagina_arg[1] > 100))
    IN  (chamada = "buscar" /\ invalida) =>
            /\ chamadas = 0
            /\ pc \in {"inicio", "erro"}
            /\ (pc = "erro" => erro \in ErrosDeValidacao)

C3_Witness ==
    /\ chamada = "buscar"
    /\ pc = "erro"
    /\ total > 0
    /\ por_pagina_arg = Some(101)
    /\ erro = "ValueErrorPorPagina"
    /\ chamadas = 0

\* C4: the k-th sleep of one transport call lasts min(2^(k-1), 20): 1, 2, 4, 8, 16, 20,
\* 20, ... for every max_tentativas.
C4_SequenciaDeEsperas ==
    \A k \in 1..Len(esperas) : esperas[k] = Min(2 ^ (k - 1), 20)

C4_Witness ==
    /\ chamada = "post"
    /\ Len(esperas) = 7
    /\ esperas[6] = 20
    /\ esperas[7] = 20

\* C5: an attempt answered by a status that is neither 200 nor one of 502, 503, 504
\* raises at once: the call is in error, that attempt was the last one, and it was
\* followed by no sleep (every earlier attempt has its sleep, this one has none).
C5_FalhaDefinitivaImediata ==
    (ultimo.tipo = "resposta" /\ ultimo.status \notin {200, 502, 503, 504}) =>
        /\ pc = "erro"
        /\ erro = "FalhaGraphQL"
        /\ tentativas_http = tentativa
        /\ Len(esperas) = tentativas_http - 1

C5_Witness ==
    /\ pc = "erro"
    /\ erro = "FalhaGraphQL"
    /\ ultimo.status = 429
    /\ tentativa = 2
    /\ max_tentativas = 6
    /\ esperas = <<1>>

\* C6: with max_tentativas = 6, a call makes at most 6 HTTP attempts, and once 6
\* transient failures in a row have been slept on, the call has raised the
\* retries-exhausted error.
C6_SeisTentativas ==
    max_tentativas = 6 =>
        /\ tentativas_http <= 6
        /\ (Len(esperas) = 6 => (pc = "erro" /\ erro = "Esgotado" /\ tentativas_http = 6))
        /\ (erro = "Esgotado" => Len(esperas) = 6)

C6_Witness ==
    /\ max_tentativas = 6
    /\ pc = "erro"
    /\ erro = "Esgotado"
    /\ tentativas_http = 6
    /\ ultimo = EstouroDeTempo
    /\ chamada = "buscar"
    /\ Len(repositorios) > 0

\* C7: two consecutive pages with no record, has-more set and an unchanged cursor end
\* the fetch in a stall error.
C7_ParadaDetectada ==
    paradas >= 2 => (pc = "erro" /\ erro = "Parada")

\* C8: every page request asks for min(por_pagina, total - accumulated) records, a
\* number between 1 and por_pagina; when the upstream serves full pages the fetch
\* makes ceil(total / por_pagina) requests and returns total records, and total = 25
\* with por_pagina = 10 makes the requests 10, 10, 5.
C8_TamanhoDosPedidos ==
    /\ (chamada = "buscar" /\ pc = "tentativa") =>
          /\ quantidade = Min(por_pagina, total - Len(repositorios))
          /\ pedidos[Len(pedidos)] = quantidade
    /\ \A i \in 1..Len(pedidos) : pedidos[i] >= 1 /\ pedidos[i] <= por_pagina
    /\ (fiel /\ Retornou /\ disponiveis >= total) =>
          /\ Len(pedidos) = Teto(total, por_pagina)
          /\ Len(resultado) = total
          /\ (total = 25 /\ por_pagina = 10 => pedidos = <<10, 10, 5>>)

C8_Witness ==
    /\ fiel /\ Retornou
    /\ total = 25
    /\ por_pagina = 10
    /\ pedidos = <<10, 10, 5>>
    /\ Len(resultado) = 25
    /\ pagina = 3

\* C9 (as stated): a rate-limiting response, any 5xx status and a timeout are each
\* answered by a sleep and not by an error to the caller.
C9_TodaFalhaTransitoriaTolerada ==
    (ultimo.tipo = "timeout" \/ ultimo.status = 429 \/ ultimo.status >= 500) =>
        /\ erro # "FalhaGraphQL"
        /\ Len(esperas) = tentativas_http

\* C9 (amended): a 502, 503 or 504 response and a timeout are each answered by a
\* sleep and, while attempts remain, by a retry; they never raise the status error.
C9_FalhaRepetidaTolerada ==
    (ultimo.tipo = "timeout" \/ ultimo.status \in {502, 503, 504}) =>
        /\ erro # "FalhaGraphQL"
        /\ Len(esperas) = tentativas_http
        /\ (tentativas_http < max_tentativas =>
                pc = "tentativa" /\ tentativa = tentativas_http + 1)

C9_Witness ==
    /\ ultimo = Resposta(504)
    /\ pc = "tentativa"
    /\ tentativa = 3
    /\ esperas = <<1, 2>>

\* C10: a 200 body with an error list ends the fetch in an error at once, with or
\* without data in the body: the request is not repeated, no page follows and nothing
\* is returned.
C10_ErrosNoCorpo ==
    ultimo.erros =>
        /\ pc = "erro"
        /\ erro = "ErrosGraphQL"
        /\ resultado = <<>>
        /\ tentativas_http = tentativa

C10_Witness ==
    /\ ultimo.erros
    /\ ultimo.nos > 0
    /\ pc = "erro"
    /\ erro = "ErrosGraphQL"
    /\ pagina = 2
    /\ Len(repositorios) > 0

\* C11: when the transport raises during a fetch (a status outside 200/502/503/504,
\* or six transient failures), the fetch ends in that same error whatever it had
\* accumulated: nothing is returned and no request follows.
C11_ErroDoTransportePropaga ==
    LET definitiva == ultimo.tipo = "resposta" /\ ultimo.status \notin {200, 502, 503, 504}
        esgotado == Len(esperas) = 6
    IN  chamada = "buscar" =>
          /\ definitiva => (pc = "erro" /\ erro = "FalhaGraphQL")
          /\ esgotado => (pc = "erro" /\ erro = "Esgotado")
          /\ (definitiva \/ esgotado) =>
                /\ resultado = <<>>
                /\ Len(enviados) = tentativas_http
                /\ Len(pedidos) = pagina

C11_Witness ==
    /\ chamada = "buscar"
    /\ pc = "erro"
    /\ erro = "FalhaGraphQL"
    /\ pagina = 2
    /\ Len(repositorios) > 0
    /\ resultado = <<>>

\* C12 (as stated): with the credential absent or empty, every fetch ends in the
\* configuration error, without an HTTP request.
C12_SemTokenErroDeConfiguracao ==
    (chamada = "buscar" /\ token # "presente" /\ pc # "inicio") =>
        (pc = "erro" /\ erro = "TokenAusente" /\ chamadas = 0)

\* C12 (amended): with the credential absent or empty no HTTP request is issued; a
\* fetch with valid arguments ends in the configuration error, and one with invalid
\* arguments ends in the validation error, which is raised first.
C12_SemTokenSemPedido ==
    (chamada = "buscar" /\ token # "presente") =>
        /\ chamadas = 0
        /\ pc \in {"inicio", "erro"}
        /\ pc = "erro" =>
              IF total > 0 /\ por_pagina >= 1 /\ por_pagina <= 100
                THEN erro = "TokenAusente"
                ELSE erro \in ErrosDeValidacao

C12_Witness ==
    /\ chamada = "buscar"
    /\ token = "vazio"
    /\ total > 0
    /\ por_pagina = 10
    /\ pc = "erro"
    /\ erro = "TokenAusente"
    /\ chamadas = 0

\* C14: after a page is processed the loop goes on to another request exactly when
\* fewer than total records are accumulated, has-more is true and the new cursor is
\* present and not empty; without a cursor the fetch returns what it has, with no
\* error, even when has-more is true.
C14_ContinuaSeESoSe ==
    /\ (chamada = "buscar" /\ pagina >= 1 /\ pc \in {"laco", "retorno"}) =>
          (pc = "laco" <=>
              /\ Len(repositorios) < total
              /\ page_info.has_next = Some(TRUE)
              /\ page_info.end_cursor \notin {None, Some(0)})
    /\ (Retornou /\ page_info.end_cursor \in {None, Some(0)}) =>
          /\ erro = ""
          /\ resultado = SubSeq(repositorios, 1, Min(total, Len(repositorios)))

C14_Witness ==
    /\ Retornou
    /\ page_info.has_next = Some(TRUE)
    /\ page_info.end_cursor = Some(0)
    /\ pagina = 2
    /\ Len(repositorios) = 1
    /\ total = 2
    /\ resultado = repositorios
    /\ erro = ""

\* C15: the requests of the first page carry no cursor, those of a later page carry
\* the end cursor of the page parsed just before, and every attempt of one page
\* request carries the same cursor and the same page size.
C15_ContinuidadeDoCursor ==
    [][chamada = "buscar" =>
         /\ Len(enviados') > Len(enviados) =>
               enviados'[Len(enviados')] =
                   [first |-> pedidos[pagina],
                    after |-> IF pagina = 1 THEN None ELSE page_info.end_cursor]
         /\ \A i \in 1..Len(enviados') : enviados'[i] = enviados'[1]]_vars

C15_Witness ==
    /\ chamada = "buscar"
    /\ fiel
    /\ pagina = 2
    /\ pc = "tentativa"
    /\ Len(enviados) = 3
    /\ enviados[3] = [first |-> 1, after |-> Some(1)]
    /\ page_info.end_cursor = Some(1)

\* C16: every page request starts its transport call with attempt 1 and delay 1: in
\* a transport call the attempt number and the delay depend only on the failures of
\* that call, not on those of earlier pages.
C16_EstadoNovoPorPedido ==
    (chamada = "buscar" /\ pc = "tentativa") =>
        /\ tentativa = tentativas_http + 1
        /\ espera = Min(2 ^ tentativas_http, 20)
        /\ Len(esperas) = tentativas_http

C16_Witness ==
    /\ chamada = "buscar"
    /\ pc = "tentativa"
    /\ pagina = 2
    /\ falhas = 5
    /\ tentativas_http = 0
    /\ tentativa = 1
    /\ espera = 1

\* C17: the returned list is the first min(total, n) of the n records of the parsed
\* pages, in the order received: nothing reordered, duplicated or dropped.
C17_PrefixoDoRecebido ==
    Retornou => resultado = SubSeq(recebidos, 1, Min(total, Len(recebidos)))

C17_Witness ==
    /\ Retornou
    /\ ~fiel
    /\ pagina = 2
    /\ recebidos = <<2, 1, 1>>
    /\ resultado = <<2, 1>>

\* C20: every transient failure is slept on, the last allowed one too: a call that
\* ends exhausted has slept as often as it has posted (1, 2, 4, 8, 16, 20 with six
\* attempts), and a call that ends with a 200 has slept once less than it has posted.
C20_EsperaAposCadaFalha ==
    /\ erro = "Esgotado" =>
          /\ Len(esperas) = tentativas_http
          /\ tentativas_http = max_tentativas
          /\ (max_tentativas = 6 => esperas = <<1, 2, 4, 8, 16, 20>>)
    /\ (ultimo.tipo = "resposta" /\ ultimo.status = 200) =>
          Len(esperas) = tentativas_http - 1

C20_Witness ==
    /\ chamada = "post"
    /\ erro = "Esgotado"
    /\ max_tentativas = 6
    /\ esperas = <<1, 2, 4, 8, 16, 20>>
    /\ tentativas_http = 6

\* C13: in every row the closed-ratio cell is empty when the record's issues total
\* is 0 or absent, and is closed / total when the total is positive (total 10 and
\* closed 3 give 3/10); no row divides by zero.
C13_RazaoDeFechadas ==
    (chamada = "csv" /\ pc # "inicio") =>
        /\ pc = "fim"
        /\ erro = ""
        /\ Len(linhas) = Len(repos)
        /\ \A i \in 1..Len(repos) :
             LET t == IF repos[i].issues = None THEN 0 ELSE repos[i].issues[1]
                 c == IF repos[i].closedIssues = None THEN 0 ELSE repos[i].closedIssues[1]
                 razao == linhas[i].closed_issues_ratio
             IN  /\ t = 0 => razao = None
                 /\ t > 0 => /\ razao # None
                             /\ razao[1].den > 0
                             /\ razao[1].num * t = c * razao[1].den
                 /\ (t = 10 /\ c = 3) => razao = Some([num |-> 3, den |-> 10])

C13_Witness ==
    /\ chamada = "csv"
    /\ pc = "fim"
    /\ repos = <<[issues |-> Some(10), closedIssues |-> Some(3)],
                 [issues |-> Some(0), closedIssues |-> Some(3)]>>
    /\ linhas[1].closed_issues_ratio = Some([num |-> 3, den |-> 10])
    /\ linhas[2].closed_issues_ratio = None

\* C18: main runs its two jobs in order: the JSON file of the first fetch is written
\* before any request of the second fetch, the CSV file is written last, and an
\* error ends the run where it is raised: after an error in the first job the
\* second job has sent no request and no file is written.
C18_TrabalhosEmOrdem ==
    chamada = "main" =>
        /\ \A i \in 1..Len(arquivos) : arquivos[i].arquivo = <<"json", "csv">>[i]
        /\ Len(arquivos) <= 2
        /\ pedidos_trabalho[2] > 0 => (Len(arquivos) >= 1 /\ total = 1000)
        /\ Len(arquivos) = 0 => (pedidos_trabalho[2] = 0 /\ total = 100)
        /\ Len(arquivos) = 2 => (pc = "fim" /\ erro = "")
        /\ (pc = "erro" /\ trabalho = 1) => (pedidos_trabalho[2] = 0 /\ arquivos = <<>>)
        /\ (pc = "erro" /\ trabalho = 2) => Len(arquivos) = 1

C18_Witness ==
    /\ chamada = "main"
    /\ pc = "erro"
    /\ erro = "FalhaGraphQL"
    /\ trabalho = 1
    /\ pedidos_trabalho = <<4, 0>>
    /\ Len(repositorios) = 20
    /\ arquivos = <<>>

\* C19: during one run of main the credential is loaded exactly once, before the
\* first request, and is not loaded again for the second job.
C19_TokenLidoUmaVez ==
    chamada = "main" =>
        /\ cargas_token <= 1
        /\ chamadas > 0 => cargas_token = 1

\* C19 (amended): the credential is loaded once by every call of the fetch whose
\* arguments are valid, before that call's first request: a run of main has loaded
\* it once for each job it has started, twice once the second job is under way.
C19_TokenLidoPorBusca ==
    /\ chamada = "main" =>
          /\ cargas_token = (IF pc = "inicio" THEN trabalho - 1 ELSE trabalho)
          /\ \A j \in 1..2 : pedidos_trabalho[j] > 0 => cargas_token >= j
    /\ chamada = "buscar" =>
          /\ cargas_token = (IF pc = "inicio" \/ erro \in ErrosDeValidacao THEN 0 ELSE 1)
          /\ chamadas > 0 => cargas_token = 1

C19_Witness ==
    /\ chamada = "main"
    /\ pc = "fim"
    /\ cargas_token = 2
    /\ pedidos_trabalho = <<10, 100>>
    /\ Len(arquivos) = 2

====
